---------------------------- MODULE Spec2Model ----------------------------
(***************************************************************************)
(* Model of snake/cartesianMesh.py: Segment, GridLine and                  *)
(* CartesianStructuredMesh.                                                *)
(*                                                                         *)
(* Numbers.  The program computes with IEEE doubles.  The model computes   *)
(* with exact decimals:                                                    *)
(*   - a coordinate or a width is an integer number of ticks, one tick     *)
(*     being 10^-VDigits (Unit ticks make 1.0);                            *)
(*   - a stretching ratio is an integer R at scale RatioUnit = 10^PDigits  *)
(*     (the ratio is R / RatioUnit);                                       *)
(*   - the comparisons behind math.log, ** and geometric_sum are decided   *)
(*     exactly on natural numbers of arbitrary size (sequences of limbs),  *)
(*     because TLC's integers are 32 bits wide.                            *)
(* What the model therefore leaves out is the last-bit rounding of the     *)
(* doubles; a width that numpy.cumprod gives with more than VDigits        *)
(* decimals is cut to the tick.                                            *)
(***************************************************************************)
EXTENDS Integers, Sequences, FiniteSets, TLC

\* number of decimals of a coordinate (one tick = 10^-VDigits)
VDigits == 4
\* number of decimals of a stretching ratio
PDigits == 2
\* number of operations (create, read, write, ...) one run performs
MaxOps == 3

Unit == 10^VDigits
RatioUnit == 10^PDigits

Abs(x) == IF x < 0 THEN -x ELSE x

-----------------------------------------------------------------------------
(* Natural numbers of arbitrary size: little-endian sequences of limbs in  *)
(* base Base, without leading zero limbs (zero is the empty sequence).     *)

Base == 10^4

RECURSIVE MagOfInt(_)
MagOfInt(n) == IF n = 0 THEN <<>> ELSE <<n % Base>> \o MagOfInt(n \div Base)

RECURSIVE MagMulCarry(_, _, _)
MagMulCarry(a, k, c) ==
  IF a = <<>> THEN MagOfInt(c)
  ELSE LET t == Head(a) * k + c
       IN  <<t % Base>> \o MagMulCarry(Tail(a), k, t \div Base)

\* a * k for a small natural k (k < 10^5 keeps every product in 32 bits)
MagMulInt(a, k) == IF k = 0 THEN <<>> ELSE MagMulCarry(a, k, 0)

RECURSIVE MagAddCarry(_, _, _)
MagAddCarry(a, b, c) ==
  IF a = <<>> /\ b = <<>> THEN MagOfInt(c)
  ELSE LET x == IF a = <<>> THEN 0 ELSE Head(a)
           y == IF b = <<>> THEN 0 ELSE Head(b)
           t == x + y + c
       IN  <<t % Base>> \o MagAddCarry(IF a = <<>> THEN <<>> ELSE Tail(a),
                                       IF b = <<>> THEN <<>> ELSE Tail(b),
                                       t \div Base)

MagAdd(a, b) == MagAddCarry(a, b, 0)

RECURSIVE MagLessFrom(_, _, _)
MagLessFrom(a, b, i) ==
  IF i = 0 THEN FALSE
  ELSE IF a[i] # b[i] THEN a[i] < b[i]
  ELSE MagLessFrom(a, b, i - 1)

MagLess(a, b) ==
  IF Len(a) # Len(b) THEN Len(a) < Len(b) ELSE MagLessFrom(a, b, Len(a))

MagLeq(a, b) == ~MagLess(b, a)

RECURSIVE MagStrip(_)
MagStrip(a) ==
  IF a = <<>> THEN <<>>
  ELSE IF a[Len(a)] = 0 THEN MagStrip(SubSeq(a, 1, Len(a) - 1))
  ELSE a

RECURSIVE MagSubBorrow(_, _, _)
MagSubBorrow(a, b, c) ==
  IF a = <<>> THEN <<>>
  ELSE LET y == IF b = <<>> THEN 0 ELSE Head(b)
           t == Head(a) - y - c
       IN  <<t % Base>> \o MagSubBorrow(Tail(a),
                                        IF b = <<>> THEN <<>> ELSE Tail(b),
                                        IF t < 0 THEN 1 ELSE 0)

\* a - b for b <= a
MagSub(a, b) == MagStrip(MagSubBorrow(a, b, 0))

\* |a - b|
MagDist(a, b) == IF MagLess(a, b) THEN MagSub(b, a) ELSE MagSub(a, b)

RECURSIVE MagMul(_, _)
MagMul(a, b) ==
  IF a = <<>> \/ b = <<>> THEN <<>>
  ELSE LET rest == MagMul(a, Tail(b))
       IN  MagAdd(MagMulInt(a, Head(b)),
                  IF rest = <<>> THEN <<>> ELSE <<0>> \o rest)

RECURSIVE MagPow(_, _)
MagPow(a, e) == IF e = 0 THEN <<1>> ELSE MagMul(MagPow(a, e - 1), a)

-----------------------------------------------------------------------------
(* Non-negative rationals n/d over the natural numbers above.              *)

Rat(n, d) == [n |-> n, d |-> d]
RatOfInts(a, b) == Rat(MagOfInt(a), MagOfInt(b))
RatLess(a, b) == MagLess(MagMul(a.n, b.d), MagMul(b.n, a.d))
RatInv(a) == Rat(a.d, a.n)
\* |a - b|
RatDist(a, b) == Rat(MagDist(MagMul(a.n, b.d), MagMul(b.n, a.d)), MagMul(a.d, b.d))

\* least k >= e0 with lhs * md^(k-e0) < rhs * mn^(k-e0)   (mn/md > 1)
RECURSIVE LeastExp(_, _, _, _, _)
LeastExp(lhs, rhs, mn, md, k) ==
  IF MagLess(lhs, rhs) THEN k
  ELSE LeastExp(MagMul(lhs, md), MagMul(rhs, mn), mn, md, k + 1)

\* round(log(y)/log(r)) for rationals y >= 1, r > 1: the least k with
\* y^2 < r^(2k+1); an exact tie log(y)/log(r) = k + 1/2 goes up, as Python 2's
\* round() rounds half away from zero.
RoundLogPos(y, r) ==
  LeastExp(MagMul(MagMul(y.n, y.n), r.d), MagMul(MagMul(y.d, y.d), r.n),
           MagMul(r.n, r.n), MagMul(r.d, r.d), 0)

\* int(log(y)/log(r)) for rationals y >= 1, r > 1: the least k with y < r^(k+1)
FloorLogPos(y, r) ==
  LeastExp(MagMul(y.n, r.d), MagMul(y.d, r.n), r.n, r.d, 0)

\* log(x)/log(r) turned into an integer, for rationals x > 0, r > 0, r # 1:
\* by int(round(.)) when rounded, by int(.) (truncation towards 0) otherwise.
\* log(x)/log(r) = log(1/x)/log(1/r) brings r above 1; below 1, x is inverted
\* and the sign put back.
LogQuotient(x, r, rounded) ==
  LET r1 == IF MagLess(r.n, r.d) THEN RatInv(r) ELSE r
      x1 == IF MagLess(r.n, r.d) THEN RatInv(x) ELSE x
      neg == MagLess(x1.n, x1.d)
      y == IF neg THEN RatInv(x1) ELSE x1
      k == IF rounded THEN RoundLogPos(y, r1) ELSE FloorLogPos(y, r1)
  IN  IF neg THEN -k ELSE k

\* The value of
\*   math.log(1.0-length/width*(1.0-ratio))/math.log(ratio)
\* for a width > 0, a length >= 0 (both in ticks) and a ratio R/RatioUnit,
\* turned into an integer; or the exception the expression raises:
\* math.log of a number <= 0 is a ValueError (math domain error), and
\* log(ratio) = 0 a ZeroDivisionError.
NbDivisions(length, width, R, rounded) ==
  LET wq == MagMulInt(MagOfInt(width), RatioUnit)
      lr == MagMulInt(MagOfInt(length), Abs(R - RatioUnit))
      argPositive == R >= RatioUnit \/ MagLess(lr, wq)
      xn == IF R >= RatioUnit THEN MagAdd(wq, lr) ELSE MagSub(wq, lr)
  IN  IF ~argPositive THEN [err |-> "ValueError", n |-> 0]
      ELSE IF R <= 0 THEN [err |-> "ValueError", n |-> 0]
      ELSE IF R = RatioUnit THEN [err |-> "ZeroDivisionError", n |-> 0]
      ELSE [err |-> "none",
            n |-> LogQuotient(Rat(xn, wq), RatOfInts(R, RatioUnit), rounded)]

\* ratio**e for a ratio R/RatioUnit > 0 and an integer e
RatioPow(R, e) ==
  IF e >= 0 THEN Rat(MagPow(MagOfInt(R), e), MagPow(MagOfInt(RatioUnit), e))
  ELSE Rat(MagPow(MagOfInt(RatioUnit), -e), MagPow(MagOfInt(R), -e))

\* (0.1)**k at the ratio's scale, for k <= PDigits
Tenth(k) == RatioUnit \div 10^k

\* abs(Decimal(str(ratio)).as_tuple().exponent): the number of decimals of the
\* shortest decimal form of the ratio, which str() ends with ".0" when the
\* ratio is a whole number.
RECURSIVE NbDecimalsFrom(_, _)
NbDecimalsFrom(R, d) ==
  IF d > 1 /\ R % 10 = 0 THEN NbDecimalsFrom(R \div 10, d - 1) ELSE d

NbDecimals(R) == IF PDigits = 0 THEN 1 ELSE NbDecimalsFrom(R, PDigits)


-----------------------------------------------------------------------------
(* Segment.  `self` is the record of the attributes set so far; a method   *)
(* returns [err |-> the exception raised or "none", ...].                  *)

\* default of the sub-domain key 'precision'
DefaultPrecision == 6
\* tolerances, as negative powers of ten: 1.0E-06 and 1.0E-12
RatioTolDigits == 6
UniformTolDigits == 12

SegLength(self) == Abs(self.end - self.start)

\* |R/RatioUnit - 1.0| > 1.0E-06, resp. < 1.0E-06
FarFromOne(R) == Abs(R - RatioUnit) * 10^(RatioTolDigits - PDigits) > 1
NearOne(R) == Abs(R - RatioUnit) * 10^(RatioTolDigits - PDigits) < 1

\* one pass of the while loop of compute_stretch_ratio, after n is computed:
\* nd is [err, n], the exception of that line or the n it gave.  The state of
\* the loop is [ratio, current_precision, err], with the field n once a pass
\* has bound n.
CoarseUpdate(aspect_ratio, st, nd) ==
  IF nd.err # "none"
  THEN [ratio |-> st.ratio, current_precision |-> st.current_precision,
        err |-> nd.err]
  ELSE LET candidate_aspect_ratio == RatioPow(st.ratio, nd.n - 1)
       IN  IF RatLess(candidate_aspect_ratio,
                      RatOfInts(aspect_ratio, RatioUnit))
           THEN [ratio |-> st.ratio + Tenth(st.current_precision),
                 current_precision |-> st.current_precision + 1,
                 n |-> nd.n, err |-> "none"]
           ELSE [ratio |-> st.ratio - Tenth(st.current_precision),
                 current_precision |-> st.current_precision,
                 n |-> nd.n, err |-> "none"]

\* one pass of the while loop of compute_stretch_ratio
CoarseStep(self, width, aspect_ratio, st) ==
  CoarseUpdate(aspect_ratio, st,
               NbDivisions(SegLength(self), width, st.ratio, TRUE))

RECURSIVE CoarseLoop(_, _, _, _, _)
CoarseLoop(self, width, aspect_ratio, precision, st) ==
  IF st.err # "none" \/ ~(st.current_precision < precision) THEN st
  ELSE CoarseLoop(self, width, aspect_ratio, precision,
                  CoarseStep(self, width, aspect_ratio, st))

\* Python's None
None == [none |-> TRUE]

CoarseInit == [ratio |-> 2 * RatioUnit, current_precision |-> 1, err |-> "none"]

\* returns the state the loop ends in: .err the exception raised or "none",
\* .ratio the ratio returned
compute_stretch_ratio(self, width, aspect_ratio, precision) ==
  CoarseLoop(self, width, aspect_ratio, precision, CoarseInit)

\* a*(1.0-r**n)/(1.0-r) for a > 0 ticks and r = R/RatioUnit, r > 0, r # 1:
\* [neg |-> its sign, abs |-> its absolute value]
geometric_sum(a, R, n) ==
  LET p == RatioPow(R, n)
  IN  [neg |-> n < 0,
       abs |-> Rat(MagMulInt(MagMul(MagOfInt(a), MagDist(p.d, p.n)), RatioUnit),
                   MagMulInt(p.d, Abs(RatioUnit - R)))]

\* abs(length - s) for a length in ticks
Deviation(length, s) ==
  LET l == RatOfInts(length, 1)
  IN  IF s.neg
      THEN Rat(MagAdd(MagMul(l.n, s.abs.d), s.abs.n), s.abs.d)
      ELSE RatDist(l, s.abs)

\* the two branches of the pass exchanged
FineUpdateSwapped(length, width, st, nd) ==
  IF nd.err # "none"
  THEN [ratio |-> st.ratio, precision_ratio |-> st.precision_ratio,
        err |-> nd.err]
  ELSE LET deviation_inf ==
             Deviation(length, geometric_sum(width, st.ratio, nd.n))
           deviation_sup ==
             Deviation(length, geometric_sum(width, st.ratio, nd.n + 1))
           precision_ratio == st.precision_ratio + 1
       IN  IF RatLess(deviation_inf, deviation_sup)
           THEN [ratio |-> st.ratio - Tenth(precision_ratio),
                 precision_ratio |-> precision_ratio,
                 n |-> nd.n, err |-> "none"]
           ELSE [ratio |-> st.ratio + Tenth(precision_ratio),
                 precision_ratio |-> precision_ratio,
                 n |-> nd.n, err |-> "none"]

\* one pass of the while loop of compute_optimal_stretch_ratio, after n is
\* computed: nd is [err, n].  The state of the loop is
\* [ratio, precision_ratio, err], with the field n once a pass has bound n.
FineUpdate(length, width, st, nd) ==
  IF nd.err # "none"
  THEN [ratio |-> st.ratio, precision_ratio |-> st.precision_ratio,
        err |-> nd.err]
  ELSE LET deviation_inf ==
             Deviation(length, geometric_sum(width, st.ratio, nd.n))
           deviation_sup ==
             Deviation(length, geometric_sum(width, st.ratio, nd.n + 1))
           precision_ratio == st.precision_ratio + 1
       IN  IF RatLess(deviation_inf, deviation_sup)
           THEN [ratio |-> st.ratio + Tenth(precision_ratio),
                 precision_ratio |-> precision_ratio,
                 n |-> nd.n, err |-> "none"]
           ELSE [ratio |-> st.ratio - Tenth(precision_ratio),
                 precision_ratio |-> precision_ratio,
                 n |-> nd.n, err |-> "none"]

\* one pass of the while loop of compute_optimal_stretch_ratio
FineStep(self, width, st) ==
  FineUpdate(SegLength(self), width, st,
             NbDivisions(SegLength(self), width, st.ratio, FALSE))

RECURSIVE FineLoop(_, _, _, _)
FineLoop(self, width, precision, st) ==
  IF st.err # "none" \/ ~(st.precision_ratio < precision) THEN st
  ELSE FineLoop(self, width, precision, FineStep(self, width, st))

FineInit(ratio) ==
  [ratio |-> ratio, precision_ratio |-> NbDecimals(ratio), err |-> "none"]

\* returns the state the loop ends in: .err the exception raised or "none",
\* .ratio the ratio returned
compute_optimal_stretch_ratio(self, width, ratio, precision) ==
  FineLoop(self, width, precision, FineInit(ratio))

\* the second branch of get_stretch_ratio after compute_stretch_ratio, which
\* gave c
RefineCoarse(self, width, c, precision) ==
  IF c.err # "none" THEN c
  ELSE compute_optimal_stretch_ratio(self, width, c.ratio, precision)

\* returns a record with .err, the exception raised or "none", and .ratio
get_stretch_ratio(self, width, stretch_ratio, aspect_ratio, precision) ==
  IF FarFromOne(stretch_ratio)
  THEN compute_optimal_stretch_ratio(self, width, stretch_ratio, precision)
  ELSE IF FarFromOne(aspect_ratio)
  THEN RefineCoarse(self, width,
                    compute_stretch_ratio(self, width, aspect_ratio, precision),
                    precision)
  ELSE [err |-> "none", ratio |-> RatioUnit]

\* numpy.all(vertices) of an array: every element is non-zero (vacuously so
\* for an empty array)
numpy_all(vertices) == \A i \in 1..Len(vertices) : vertices[i] # 0

Last(seq) == seq[Len(seq)]

\* the [::-1] left out
NotReversed(seq) == seq

Reverse(seq) == [i \in 1..Len(seq) |-> seq[Len(seq) + 1 - i]]

\* numpy.cumsum
RECURSIVE cumsum(_)
cumsum(seq) ==
  IF Len(seq) <= 1 THEN seq
  ELSE LET c == cumsum(SubSeq(seq, 1, Len(seq) - 1))
       IN  Append(c, Last(c) + Last(seq))

\* the cumulative product left out: n widths that are all `width`
RECURSIVE cumprod_flat(_, _, _)
cumprod_flat(width, R, n) ==
  IF n = 1 THEN <<width>> ELSE Append(cumprod_flat(width, R, n - 1), width)

\* numpy.cumprod of the array (width, ratio, ..., ratio) of n elements, the
\* width in ticks and the ratio R/RatioUnit
RECURSIVE cumprod(_, _, _)
cumprod(width, R, n) ==
  IF n = 1 THEN <<width>>
  ELSE LET c == cumprod(width, R, n - 1)
       IN  Append(c, (Last(c) * R) \div RatioUnit)

\* numpy.arange stopping at `end` itself instead of end + width/2.0, which
\* leaves the end point out
arange_to_end(start, stop2, step) ==
  LET count == -((-(stop2 - step - 2 * start)) \div (2 * step))
  IN  [i \in 1..(IF count > 0 THEN count ELSE 0) |-> start + (i - 1) * step]

\* numpy.arange(start, stop, step) for a step > 0; twice the stop is given,
\* stop being end + width/2.0: ceil((stop - start)/step) elements
arange(start, stop2, step) ==
  LET count == -((-(stop2 - 2 * start)) \div (2 * step))
  IN  [i \in 1..(IF count > 0 THEN count ELSE 0) |-> start + (i - 1) * step]

\* the test of the uniform discretization left out
AlwaysMultiple(length, width) == FALSE

\* abs(int(round(length/width))-length/width) > 1.0E-12, for length >= 0 and
\* width > 0
NotMultiple(length, width) ==
  LET nearest == (2 * length + width) \div (2 * width)
  IN  MagLess(MagOfInt(width),
              MagMul(MagOfInt(Abs(nearest * width - length)),
                     MagPow(MagOfInt(10), UniformTolDigits)))

One == [num |-> 1, den |-> 1]

\* the stretched branch of get_vertices once the widths are computed
StretchedVertices(self, reverse, widths) ==
  LET n == Len(widths)
      sums == cumsum(widths)
  IN  IF reverse
      THEN [err |-> "none", printed |-> "",
            vertices |-> Reverse(<<self.end>> \o
                                 [i \in 1..n |-> self.end - sums[i]]),
            aspect_ratio |-> [num |-> widths[n], den |-> widths[1]],
            stretch_ratio |-> [num |-> RatioUnit, den |-> self.stretch_ratio]]
      ELSE [err |-> "none", printed |-> "",
            vertices |-> <<self.start>> \o [i \in 1..n |-> self.start + sums[i]],
            aspect_ratio |-> [num |-> widths[n], den |-> widths[1]],
            stretch_ratio |-> [num |-> self.stretch_ratio, den |-> RatioUnit]]

\* the stretched branch of get_vertices after n is computed: nd is [err, n]
Stretched(self, reverse, nd) ==
  IF nd.err # "none" THEN [err |-> nd.err, printed |-> ""]
  ELSE IF nd.n < 0 THEN [err |-> "ValueError", printed |-> ""] \* numpy.empty(n)
  ELSE IF nd.n = 0 THEN [err |-> "IndexError", printed |-> ""] \* widths[0] =
  ELSE StretchedVertices(self, reverse,
                         cumprod(self.width, self.stretch_ratio, nd.n))

\* Segment.get_vertices; self.stretch_ratio is the ratio R/RatioUnit.
\* Returns [err, vertices, aspect_ratio, stretch_ratio, printed]; the two
\* ratios are fractions [num, den].
Segment_get_vertices(self, reverse) ==
  IF NearOne(self.stretch_ratio)
  THEN IF NotMultiple(SegLength(self), self.width)
       THEN [err |-> "SystemExit", printed |-> "[error] uniform discretization"]
       ELSE [err |-> "none", printed |-> "",
             vertices |-> arange(self.start, 2 * self.end + self.width,
                                 self.width),
             aspect_ratio |-> One,
             stretch_ratio |-> [num |-> self.stretch_ratio, den |-> RatioUnit]]
  ELSE Stretched(self, reverse,
                 NbDivisions(SegLength(self), self.width, self.stretch_ratio,
                             TRUE))

\* the end of Segment.create_from_yaml_data and the last line of __init__,
\* gv being what get_vertices returned: [err, printed, seg]
Segment_of_vertices(data, gv) ==
  IF gv.err # "none" THEN [err |-> gv.err, printed |-> gv.printed]
  ELSE [err |-> "none", printed |-> "",
        seg |-> [start |-> data.start, end |-> data.end,
                 width |-> data.width,
                 stretch_ratio |-> gv.stretch_ratio,
                 aspect_ratio |-> gv.aspect_ratio,
                 vertices |-> gv.vertices,
                 nb_divisions |-> Len(gv.vertices) - 1]]

\* Segment.create_from_yaml_data from the call of get_vertices on, sr being
\* what get_stretch_ratio returned
Segment_of_ratio(data, sr) ==
  IF sr.err # "none" THEN [err |-> sr.err, printed |-> ""]
  ELSE Segment_of_vertices(data,
         Segment_get_vertices([start |-> data.start, end |-> data.end,
                               width |-> data.width,
                               stretch_ratio |-> sr.ratio],
                              data.reverse))

\* Segment(data=data): create_from_yaml_data, followed by the last line of
\* __init__.  Returns [err, printed, seg].
Segment_create_from_yaml_data(data) ==
  Segment_of_ratio(data,
    get_stretch_ratio([start |-> data.start, end |-> data.end], data.width,
                      data.stretchRatio, data.aspectRatio, data.precision))

\* Segment.create_from_vertices, followed by the last line of __init__:
\* a segment read from a file has no start, end, width nor ratio
Segment_create_from_vertices(vertices) ==
  [vertices |-> vertices, nb_divisions |-> Len(vertices) - 1]

\* Segment.generate_yaml_info; reading self.end of a segment made from
\* vertices is an AttributeError
Segment_generate_yaml_info(self) ==
  IF "end" \notin DOMAIN self THEN [err |-> "AttributeError"]
  ELSE [err |-> "none",
        info |-> [end |-> self.end, cells |-> self.nb_divisions,
                  stretchRatio |-> self.stretch_ratio]]


-----------------------------------------------------------------------------
(* GridLine.                                                               *)

\* node[key] if the key is present, the default otherwise
KeyOr(node, key, default) == IF key \in DOMAIN node THEN node[key] ELSE default

\* every sub-domain starting where the gridline starts
SubDomainFromStart(data, index) ==
  LET node == data.subDomains[index]
  IN  [start |-> data.start,
       end |-> node.end,
       width |-> node.width,
       reverse |-> KeyOr(node, "reverse", FALSE),
       precision |-> KeyOr(node, "precision", DefaultPrecision),
       aspectRatio |-> KeyOr(node, "aspectRatio", RatioUnit),
       stretchRatio |-> KeyOr(node, "stretchRatio", RatioUnit)]

\* the sub-domain `index` of the gridline data, as the loop of
\* create_from_yaml_data completes it: its start and the defaults of the keys
\* that are not present
SubDomain(data, index) ==
  LET node == data.subDomains[index]
  IN  [start |-> IF index = 1 THEN data.start
                 ELSE data.subDomains[index - 1].end,
       end |-> node.end,
       width |-> node.width,
       reverse |-> KeyOr(node, "reverse", FALSE),
       precision |-> KeyOr(node, "precision", DefaultPrecision),
       aspectRatio |-> KeyOr(node, "aspectRatio", RatioUnit),
       stretchRatio |-> KeyOr(node, "stretchRatio", RatioUnit)]

\* the loop of GridLine.create_from_yaml_data from sub-domain `index` on, the
\* segments made so far being `segments`: [err, printed, segments].
\* AppendSegment is the end of one pass, s being what Segment(data=node) gave.
RECURSIVE CreateSegments(_, _, _), AppendSegment(_, _, _, _)
CreateSegments(data, index, segments) ==
  IF index > Len(data.subDomains)
  THEN [err |-> "none", printed |-> "", segments |-> segments]
  ELSE AppendSegment(data, index, segments,
                     Segment_create_from_yaml_data(SubDomain(data, index)))

AppendSegment(data, index, segments, s) ==
  IF s.err # "none"
  THEN [err |-> s.err, printed |-> s.printed, segments |-> segments]
  ELSE CreateSegments(data, index + 1, Append(segments, s.seg))

RECURSIVE SumDivisions(_)
SumDivisions(segments) ==
  IF segments = <<>> THEN 0
  ELSE Head(segments).nb_divisions + SumDivisions(Tail(segments))

\* the gridline of the segments c that the loop made, with the last line of
\* GridLine.__init__: [err, printed, gridline]
GridLine_of_segments(data, c) ==
  IF c.err # "none" THEN [err |-> c.err, printed |-> c.printed]
  ELSE [err |-> "none", printed |-> "",
        gridline |-> [label |-> data.direction,
                      start |-> data.start,
                      end |-> Last(data.subDomains).end,
                      segments |-> c.segments,
                      nb_divisions |-> SumDivisions(c.segments)]]

\* GridLine(data=data): create_from_yaml_data and the last line of __init__
GridLine_create_from_yaml_data(data) ==
  GridLine_of_segments(data, CreateSegments(data, 1, <<>>))

\* GridLine(vertices=vertices, label=label): [err, gridline].  When
\* numpy.all(vertices) is false the gridline keeps no segment and gets neither
\* start nor end; vertices[0] of an empty array is an IndexError.
GridLine_create_from_vertices(vertices, label) ==
  IF ~numpy_all(vertices)
  THEN [err |-> "none",
        gridline |-> [label |-> label, segments |-> <<>>,
                      nb_divisions |-> SumDivisions(<<>>)]]
  ELSE IF Len(vertices) = 0 THEN [err |-> "IndexError"]
  ELSE LET segments == <<Segment_create_from_vertices(vertices)>>
       IN  [err |-> "none",
            gridline |-> [label |-> label,
                          start |-> vertices[1], end |-> Last(vertices),
                          segments |-> segments,
                          nb_divisions |-> SumDivisions(segments)]]

\* numpy.round(x, precision) of a coordinate in ticks: to the nearest multiple
\* of 10^-precision, a half going to the even multiple
numpy_round(x, precision) ==
  IF precision >= VDigits THEN x
  ELSE LET step == 10^(VDigits - precision)
           q == x \div step
           rem == x % step
       IN  IF 2 * rem < step THEN q * step
           ELSE IF 2 * rem > step THEN (q + 1) * step
           ELSE IF q % 2 = 0 THEN q * step ELSE (q + 1) * step

\* numpy.unique of a set of values: sorted, each value once
RECURSIVE numpy_unique(_)
numpy_unique(S) ==
  IF S = {} THEN <<>>
  ELSE LET m == CHOOSE x \in S : \A y \in S : x <= y
       IN  <<m>> \o numpy_unique(S \ {m})

\* GridLine.get_vertices: [err, vertices]; numpy.concatenate of no array at
\* all is a ValueError
GridLine_get_vertices(self, precision) ==
  IF self.segments = <<>> THEN [err |-> "ValueError"]
  ELSE [err |-> "none",
        vertices |-> numpy_unique(
          UNION {{numpy_round(self.segments[i].vertices[j], precision) :
                    j \in 1..Len(self.segments[i].vertices)} :
                  i \in 1..Len(self.segments)})]

\* GridLine.generate_yaml_info: [err, info]; reading self.start of a gridline
\* that has none is an AttributeError
RECURSIVE SegmentsInfo(_)
SegmentsInfo(segments) ==
  IF segments = <<>> THEN [err |-> "none", info |-> <<>>]
  ELSE LET h == Segment_generate_yaml_info(Head(segments))
           t == SegmentsInfo(Tail(segments))
       IN  IF h.err # "none" THEN [err |-> h.err]
           ELSE IF t.err # "none" THEN [err |-> t.err]
           ELSE [err |-> "none", info |-> <<h.info>> \o t.info]

GridLine_generate_yaml_info(self) ==
  LET subs == SegmentsInfo(self.segments)
  IN  IF "start" \notin DOMAIN self THEN [err |-> "AttributeError"]
      ELSE IF subs.err # "none" THEN [err |-> subs.err]
      ELSE [err |-> "none",
            info |-> [direction |-> self.label, start |-> self.start,
                      subDomains |-> subs.info]]


-----------------------------------------------------------------------------
(* The inputs: gridline mappings as yaml.load gives them, with start < end *)
(* and width > 0.  A stretched sub-domain gives its own precision, so that *)
(* its ratio has at most PDigits decimals (the default precision 6 would   *)
(* need six); no search of them passes through the ratio 1.0.              *)

\* x: 0 to 1 by 0.25
GUniformZero ==
  [direction |-> "x", start |-> 0,
   subDomains |-> <<[end |-> Unit, width |-> Unit \div 4]>>]
\* 1 to 2 by 0.5
GPositive(direction) ==
  [direction |-> direction, start |-> Unit,
   subDomains |-> <<[end |-> 2 * Unit, width |-> Unit \div 2]>>]
\* -2 to -1 by 0.5
GNegative(direction) ==
  [direction |-> direction, start |-> -(2 * Unit),
   subDomains |-> <<[end |-> -Unit, width |-> Unit \div 2]>>]
\* two uniform sub-domains sharing the boundary 1.5
GTwoUniform ==
  [direction |-> "x", start |-> Unit,
   subDomains |-> <<[end |-> 3 * (Unit \div 2), width |-> Unit \div 4],
                    [end |-> 5 * (Unit \div 2), width |-> Unit \div 2]>>]
\* 1 to 3 stretched by 2.0 from a first width 0.25, then 3 to 4 by 0.5
GStretched ==
  [direction |-> "x", start |-> Unit,
   subDomains |-> <<[end |-> 3 * Unit, width |-> Unit \div 4,
                     stretchRatio |-> 2 * RatioUnit, precision |-> 1],
                    [end |-> 4 * Unit, width |-> Unit \div 2]>>]
\* 1 to 2.75 stretched by 2.0 from a first width 0.25 (0.25 + 0.5 + 1.0),
\* in the reverse order
GReversed ==
  [direction |-> "y", start |-> Unit,
   subDomains |-> <<[end |-> 11 * (Unit \div 4), width |-> Unit \div 4,
                     stretchRatio |-> 2 * RatioUnit, precision |-> 1,
                     reverse |-> TRUE]>>]
\* 1 to 3 from a first width 0.5, towards the aspect ratio 4
GAspect ==
  [direction |-> "y", start |-> Unit,
   subDomains |-> <<[end |-> 3 * Unit, width |-> Unit \div 2,
                     aspectRatio |-> 4 * RatioUnit, precision |-> 2]>>]
\* 1 to 2 by 0.4: the length is no multiple of the width
GMismatch ==
  [direction |-> "y", start |-> Unit,
   subDomains |-> <<[end |-> 3 * (Unit \div 2), width |-> Unit \div 4],
                    [end |-> 5 * (Unit \div 2), width |-> 4 * (Unit \div 10)]>>]
\* 1 to 1.1 from a first width 1.0: no division fits
GDegenerate ==
  [direction |-> "y", start |-> Unit,
   subDomains |-> <<[end |-> 11 * (Unit \div 10), width |-> Unit,
                     aspectRatio |-> 2 * RatioUnit, precision |-> 2]>>]

DataSet ==
  { <<GUniformZero, GPositive("y")>>,
    <<GTwoUniform, GNegative("y")>>,
    <<GStretched, GReversed>>,
    <<GPositive("x"), GAspect, GNegative("z")>>,
    <<GPositive("x"), GMismatch>>,
    <<GPositive("x"), GDegenerate>> }

\* the gridline mappings of DataSet and, computed once, what GridLine(data=g)
\* gives for each
GridLineInputs == UNION {{d[i] : i \in 1..Len(d)} : d \in DataSet}
BuiltGridLines == [g \in GridLineInputs |-> GridLine_create_from_yaml_data(g)]

\* the precisions write is called with
PrecisionSet == {0, 1, DefaultPrecision}

Meshes == {"mesh1", "mesh2"}
GridPaths == {"grid.txt"}
YamlPaths == {"grid.yaml"}

\* the grid files found at the start: none; one written for the gridlines
\* (0, 0.5, 1) and (1, 2); one whose header announces 3 + 3 coordinates and
\* that holds 5; one that holds 2
InitialGridFiles ==
  { None,
    [header |-> <<2, 1>>,
     lines |-> <<0, Unit \div 2, Unit, Unit, 2 * Unit>>],
    [header |-> <<2, 2>>,
     lines |-> <<Unit, 2 * Unit, 3 * Unit, Unit, 2 * Unit>>],
    [header |-> <<2, 2>>, lines |-> <<Unit, 2 * Unit>>] }

-----------------------------------------------------------------------------
(* CartesianStructuredMesh.  `self` is the list self.gridlines.            *)

\* reduce(add, nb_divisions, 1): the sum in the place of the product
RECURSIVE reduce_add(_, _)
reduce_add(seq, initial) ==
  IF seq = <<>> THEN initial ELSE reduce_add(Tail(seq), initial + Head(seq))

\* reduce(mul, nb_divisions, 1)
RECURSIVE reduce_mul(_, _)
reduce_mul(seq, initial) ==
  IF seq = <<>> THEN initial ELSE reduce_mul(Tail(seq), initial * Head(seq))

\* get_number_cells: (total, list of the divisions of each gridline)
get_number_cells(self) ==
  LET nb_divisions == [i \in 1..Len(self) |-> self[i].nb_divisions]
  IN  [total |-> reduce_mul(nb_divisions, 1), nb_divisions |-> nb_divisions]

\* create: the loop from node `index` of data on; [err, printed, gridlines].
\* An exception leaves in self.gridlines the gridlines appended before it.
\* GridLine(data=node), for a node of the inputs
GridLine_of_data(node) == BuiltGridLines[node]

\* AppendGridLine is the end of one pass, g being what GridLine(data=node) gave.
RECURSIVE create_from(_, _, _), AppendGridLine(_, _, _, _)
create_from(self, data, index) ==
  IF index > Len(data) THEN [err |-> "none", printed |-> "", gridlines |-> self]
  ELSE AppendGridLine(self, data, index, GridLine_of_data(data[index]))

AppendGridLine(self, data, index, g) ==
  IF g.err # "none"
  THEN [err |-> g.err, printed |-> g.printed, gridlines |-> self]
  ELSE create_from(Append(self, g.gridline), data, index + 1)

create(self, data) == create_from(self, data, 1)

\* the caller's data once create has returned: create_from_yaml_data stores
\* the start and the defaults in the sub-domain mappings it is given
CompletedData(data) ==
  [i \in 1..Len(data) |->
     [data[i] EXCEPT !.subDomains =
        [j \in 1..Len(data[i].subDomains) |-> SubDomain(data[i], j)]]]

\* number of significant digits numpy.savetxt writes by default ('%.18e')
SaveTxtDigits == 19

RECURSIVE NbDigits(_)
NbDigits(n) == IF n < 10 THEN 1 ELSE 1 + NbDigits(n \div 10)

\* the number one line of numpy.savetxt holds: the value to SaveTxtDigits
\* significant digits (numpy.loadtxt reads back what the line holds)
savetxt_line(v) ==
  IF NbDigits(Abs(v)) <= SaveTxtDigits THEN v
  ELSE LET step == 10^(NbDigits(Abs(v)) - SaveTxtDigits)
       IN  ((2 * v + step) \div (2 * step)) * step

\* the loop of write from gridline `index` on, `lines` being written so far:
\* [err, lines]
RECURSIVE write_from(_, _, _, _)
write_from(self, precision, index, lines) ==
  IF index > Len(self) THEN [err |-> "none", lines |-> lines]
  ELSE LET v == GridLine_get_vertices(self[index], precision)
       IN  IF v.err # "none" THEN [err |-> v.err, lines |-> lines]
           ELSE write_from(self, precision, index + 1,
                           lines \o [i \in 1..Len(v.vertices) |->
                                       savetxt_line(v.vertices[i])])

\* write: [err, file], the file as it is left: open(file_path, 'w') empties
\* it, the header line is written, then the vertices gridline by gridline
write(self, precision) ==
  LET w == write_from(self, precision, 1, <<>>)
  IN  [err |-> w.err,
       file |-> [header |-> get_number_cells(self).nb_divisions,
                 lines |-> w.lines]]

\* numpy.split(vertices, indices): the slices between consecutive indices,
\* cut as Python cuts a slice that passes the end of the array
Slice(vertices, from, to) ==
  LET hi == IF to < Len(vertices) THEN to ELSE Len(vertices)
  IN  IF from >= hi THEN <<>> ELSE SubSeq(vertices, from + 1, hi)

numpy_split(vertices, indices) ==
  [k \in 1..(Len(indices) + 1) |->
     Slice(vertices,
           IF k = 1 THEN 0 ELSE indices[k - 1],
           IF k > Len(indices) THEN Len(vertices) ELSE indices[k])]

labels == <<"x", "y", "z">>

\* the loop of read from chunk `index` on: [err, gridlines]; labels[index]
\* is an IndexError past the third chunk
RECURSIVE read_from(_, _, _)
read_from(self, chunks, index) ==
  IF index > Len(chunks) THEN [err |-> "none", gridlines |-> self]
  ELSE IF index > Len(labels) THEN [err |-> "IndexError", gridlines |-> self]
  ELSE LET g == GridLine_create_from_vertices(chunks[index], labels[index])
       IN  IF g.err # "none" THEN [err |-> g.err, gridlines |-> self]
           ELSE read_from(Append(self, g.gridline), chunks, index + 1)

\* read: [err, gridlines]; `file` is None when there is no file at the path.
\* numpy.loadtxt squeezes a single number to a 0-d array, which numpy.split
\* refuses with an IndexError.
read(self, file) ==
  IF file = None THEN [err |-> "IOError", gridlines |-> self]
  ELSE IF Len(file.lines) = 1 THEN [err |-> "IndexError", gridlines |-> self]
  ELSE LET nb_divisions == file.header
           indices == cumsum([i \in 1..(Len(nb_divisions) - 1) |->
                                nb_divisions[i] + 1])
       IN  read_from(self, numpy_split(file.lines, indices), 1)

\* write_yaml_file: [err, file]; the data are gathered before the file is
\* opened, so an exception leaves the file alone (file |-> None: not written)
RECURSIVE GridLinesInfo(_)
GridLinesInfo(self) ==
  IF self = <<>> THEN [err |-> "none", info |-> <<>>]
  ELSE LET h == GridLine_generate_yaml_info(Head(self))
           t == GridLinesInfo(Tail(self))
       IN  IF h.err # "none" THEN [err |-> h.err]
           ELSE IF t.err # "none" THEN [err |-> t.err]
           ELSE [err |-> "none", info |-> <<h.info>> \o t.info]

write_yaml_file(self) ==
  LET data == GridLinesInfo(self)
      cells == get_number_cells(self)
  IN  IF data.err # "none" THEN [err |-> data.err, file |-> None]
      ELSE [err |-> "none",
            file |-> [nb_cells_directions |-> cells.nb_divisions,
                      nb_cells |-> cells.total, data |-> data.info]]


-----------------------------------------------------------------------------
(* The program: one Python process that holds the mesh instances of Meshes *)
(* and calls their methods; an exception that nothing catches ends it.     *)

VARIABLES
  gridlines,   \* gridlines[m]: the list self.gridlines of the mesh m
  files,       \* files[path]: what the file holds, None when there is none
  exc,         \* the exception that ended the process, "none" while it runs
  printed,     \* the [error] message printed, "" when none was
  op,          \* the last call: its name, mesh, arguments, and the mesh's
               \* gridlines before it; for a create that returned, the data
               \* as the call left them
  ret,         \* what the last get_number_cells returned
  written,     \* written[path]: the gridlines and the precision of the last
               \* write to the path (history)
  nb_ops,      \* number of calls made
  search       \* the ratio search in progress (specification SearchSpec)

vars == <<gridlines, files, exc, printed, op, ret, written, nb_ops, search>>

Idle == [phase |-> "idle"]

Init ==
  /\ gridlines = [m \in Meshes |-> <<>>]
  /\ files \in {[p \in GridPaths \cup YamlPaths |->
                   IF p \in GridPaths THEN f ELSE None] : f \in InitialGridFiles}
  /\ exc = "none"
  /\ printed = ""
  /\ op = [name |-> "init"]
  /\ ret = None
  /\ written = [p \in GridPaths |-> None]
  /\ nb_ops = 0
  /\ search = Idle

Running == exc = "none" /\ nb_ops < MaxOps

\* mesh.create(data)
Create(m, data) ==
  \E r \in {create(gridlines[m], data)} :
      /\ Running
      /\ gridlines' = [gridlines EXCEPT ![m] = r.gridlines]
      /\ exc' = r.err
      /\ printed' = r.printed
      /\ op' = [name |-> "create", mesh |-> m, data |-> data,
                before |-> gridlines[m],
                completed |-> IF r.err = "none" THEN CompletedData(data)
                              ELSE <<>>]
      /\ ret' = None
      /\ nb_ops' = nb_ops + 1
      /\ UNCHANGED <<files, written, search>>

\* mesh.get_number_cells()
GetNumberCells(m) ==
  /\ Running
  /\ ret' = get_number_cells(gridlines[m])
  /\ op' = [name |-> "get_number_cells", mesh |-> m, before |-> gridlines[m]]
  /\ nb_ops' = nb_ops + 1
  /\ UNCHANGED <<gridlines, files, exc, printed, written, search>>

\* mesh.write(path, precision)
Write(m, path, precision) ==
  \E w \in {write(gridlines[m], precision)} :
      /\ Running
      /\ files' = [files EXCEPT ![path] = w.file]
      /\ exc' = w.err
      /\ written' = [written EXCEPT ![path] =
                       [gridlines |-> gridlines[m], precision |-> precision]]
      /\ op' = [name |-> "write", mesh |-> m, path |-> path,
                precision |-> precision, before |-> gridlines[m]]
      /\ ret' = None
      /\ nb_ops' = nb_ops + 1
      /\ UNCHANGED <<gridlines, printed, search>>

\* mesh.read(path)
Read(m, path) ==
  \E r \in {read(gridlines[m], files[path])} :
      /\ Running
      /\ gridlines' = [gridlines EXCEPT ![m] = r.gridlines]
      /\ exc' = r.err
      /\ op' = [name |-> "read", mesh |-> m, path |-> path,
                before |-> gridlines[m]]
      /\ ret' = None
      /\ nb_ops' = nb_ops + 1
      /\ UNCHANGED <<files, printed, written, search>>

\* mesh.write_yaml_file(path)
WriteYaml(m, path) ==
  \E w \in {write_yaml_file(gridlines[m])} :
      /\ Running
      /\ files' = IF w.err = "none" THEN [files EXCEPT ![path] = w.file]
                  ELSE files
      /\ exc' = w.err
      /\ op' = [name |-> "write_yaml_file", mesh |-> m, path |-> path,
                before |-> gridlines[m]]
      /\ ret' = None
      /\ nb_ops' = nb_ops + 1
      /\ UNCHANGED <<gridlines, printed, written, search>>

Next ==
  \/ \E m \in Meshes, data \in DataSet : Create(m, data)
  \/ \E m \in Meshes : GetNumberCells(m)
  \/ \E m \in Meshes, path \in GridPaths, precision \in PrecisionSet :
       Write(m, path, precision)
  \/ \E m \in Meshes, path \in GridPaths : Read(m, path)
  \/ \E m \in Meshes, path \in YamlPaths : WriteYaml(m, path)

Spec == Init /\ [][Next]_vars

-----------------------------------------------------------------------------
(* The construction of one segment from parameters, pass by pass:          *)
(* Segment(data) calls get_stretch_ratio, which runs the loop of           *)
(* compute_stretch_ratio and then that of compute_optimal_stretch_ratio,   *)
(* and then get_vertices.  `search` holds the sub-domain mapping, the      *)
(* place reached and the local variables of the loop.                      *)

\* the precisions, lengths, widths and ratios of the sub-domains searched
SearchPrecisions == {1, 2}
SearchLengths == {Unit \div 10, Unit, 2 * Unit, 3 * Unit}
SearchWidths == {Unit \div 4, Unit \div 2, Unit}
SearchAspectRatios == {2 * RatioUnit, 4 * RatioUnit}
SearchStretchRatios == {RatioUnit \div 2, 3 * (RatioUnit \div 2), 2 * RatioUnit}

\* a sub-domain gives an aspect ratio, a stretching ratio, or none of them
SearchRatios ==
  {[aspectRatio |-> a, stretchRatio |-> RatioUnit] : a \in SearchAspectRatios}
  \cup {[aspectRatio |-> RatioUnit, stretchRatio |-> s] :
          s \in SearchStretchRatios}
  \cup {[aspectRatio |-> RatioUnit, stretchRatio |-> RatioUnit]}
  \cup {[aspectRatio |-> 2 * RatioUnit, stretchRatio |-> 3 * (RatioUnit \div 2)]}

SearchInputs ==
  {[start |-> Unit, end |-> Unit + l, width |-> w, reverse |-> rv,
    precision |-> p, aspectRatio |-> r.aspectRatio,
    stretchRatio |-> r.stretchRatio] :
     l \in SearchLengths, w \in SearchWidths, rv \in BOOLEAN,
     p \in SearchPrecisions, r \in SearchRatios}

SearchInit ==
  /\ gridlines = [m \in Meshes |-> <<>>]
  /\ files = [p \in GridPaths \cup YamlPaths |-> None]
  /\ exc = "none"
  /\ printed = ""
  /\ op = [name |-> "init"]
  /\ ret = None
  /\ written = [p \in GridPaths |-> None]
  /\ nb_ops = 0
  /\ search = Idle

\* the aspect ratio tested before the stretching ratio
SegmentInitAspectFirst(data) ==
  /\ search = Idle
  /\ search' =
       IF FarFromOne(data.aspectRatio)
       THEN [phase |-> "coarse", data |-> data, st |-> CoarseInit]
       ELSE IF FarFromOne(data.stretchRatio)
       THEN [phase |-> "fine", data |-> data, st |-> FineInit(data.stretchRatio)]
       ELSE [phase |-> "resolved", data |-> data,
             st |-> [err |-> "none", ratio |-> RatioUnit]]
  /\ UNCHANGED <<gridlines, files, exc, printed, op, ret, written, nb_ops>>

\* Segment(data=data) up to the first loop: the branches of get_stretch_ratio
SegmentInit(data) ==
  /\ search = Idle
  /\ search' =
       IF FarFromOne(data.stretchRatio)
       THEN [phase |-> "fine", data |-> data, st |-> FineInit(data.stretchRatio)]
       ELSE IF FarFromOne(data.aspectRatio)
       THEN [phase |-> "coarse", data |-> data, st |-> CoarseInit]
       ELSE [phase |-> "resolved", data |-> data,
             st |-> [err |-> "none", ratio |-> RatioUnit]]
  /\ UNCHANGED <<gridlines, files, exc, printed, op, ret, written, nb_ops>>

\* one pass of the loop of compute_stretch_ratio
CoarsePass ==
  /\ search.phase = "coarse"
  /\ search.st.err = "none"
  /\ search.st.current_precision < search.data.precision
  /\ search' = [search EXCEPT !.st = CoarseStep(search.data, search.data.width,
                                                search.data.aspectRatio,
                                                search.st)]
  /\ UNCHANGED <<gridlines, files, exc, printed, op, ret, written, nb_ops>>

\* compute_stretch_ratio returns its ratio, which get_stretch_ratio hands to
\* compute_optimal_stretch_ratio
CoarseReturn ==
  /\ search.phase = "coarse"
  /\ search.st.err = "none"
  /\ ~(search.st.current_precision < search.data.precision)
  /\ search' = [search EXCEPT !.phase = "fine", !.st = FineInit(search.st.ratio)]
  /\ UNCHANGED <<gridlines, files, exc, printed, op, ret, written, nb_ops>>

\* one pass of the loop of compute_optimal_stretch_ratio
FinePass ==
  /\ search.phase = "fine"
  /\ search.st.err = "none"
  /\ search.st.precision_ratio < search.data.precision
  /\ search' = [search EXCEPT !.st = FineStep(search.data, search.data.width,
                                              search.st)]
  /\ UNCHANGED <<gridlines, files, exc, printed, op, ret, written, nb_ops>>

\* compute_optimal_stretch_ratio and get_stretch_ratio return the ratio
FineReturn ==
  /\ search.phase = "fine"
  /\ search.st.err = "none"
  /\ ~(search.st.precision_ratio < search.data.precision)
  /\ search' = [search EXCEPT !.phase = "resolved"]
  /\ UNCHANGED <<gridlines, files, exc, printed, op, ret, written, nb_ops>>

\* get_vertices with the ratio resolved, and the end of Segment.__init__
GetVertices ==
  /\ search.phase = "resolved"
  /\ search' = [phase |-> "built", data |-> search.data, st |-> search.st,
                segment |-> Segment_of_ratio(search.data, search.st)]
  /\ UNCHANGED <<gridlines, files, exc, printed, op, ret, written, nb_ops>>

SearchNext ==
  \/ \E data \in SearchInputs : SegmentInit(data)
  \/ CoarsePass
  \/ CoarseReturn
  \/ FinePass
  \/ FineReturn
  \/ GetVertices

SearchSpec == SearchInit /\ [][SearchNext]_vars


-----------------------------------------------------------------------------
(* Properties of the mesh operations (specification Spec).                 *)

\* a gridline or a segment built from a mapping by create, as opposed to one
\* read from a file
FromData(g) == "start" \in DOMAIN g /\ g.segments # <<>>
SegmentFromData(s) == "width" \in DOMAIN s

\* the gridlines of all meshes, and the segments built from parameters
AllGridLines == UNION {{gridlines[m][i] : i \in 1..Len(gridlines[m])} : m \in Meshes}
AllSegments ==
  UNION {{g.segments[j] : j \in 1..Len(g.segments)} : g \in AllGridLines}

\* C1: round trip.  When read(path) has just filled an empty mesh from a
\* file that write(path, precision) wrote for a mesh populated by create
\* (2 or 3 directions), the mesh read has as many gridlines as the mesh
\* written and, direction by direction, the same nb_divisions and the same
\* get_vertices(precision).  Stated for the default precision of write.
SameGridLine(g, h, precision) ==
  /\ g.nb_divisions = h.nb_divisions
  /\ GridLine_get_vertices(g, precision) = GridLine_get_vertices(h, precision)
  /\ GridLine_get_vertices(h, precision).err = "none"

RoundTripOf(w) ==
  (/\ w # None
   /\ w.precision = DefaultPrecision
   /\ Len(w.gridlines) \in {2, 3}
   /\ \A i \in 1..Len(w.gridlines) : FromData(w.gridlines[i]))
  => /\ exc = "none"
     /\ Len(gridlines[op.mesh]) = Len(w.gridlines)
     /\ \A i \in 1..Len(w.gridlines) :
          i <= Len(gridlines[op.mesh])
          /\ SameGridLine(gridlines[op.mesh][i], w.gridlines[i], w.precision)

WriteReadRoundTrip ==
  (op.name = "read" /\ op.before = <<>>) => RoundTripOf(written[op.path])


\* C2: for every gridline built from a mapping and every rounding precision,
\* get_vertices(precision) succeeds and nb_divisions = len(vertices) - 1.
DivisionsOf(g, precision) == Len(GridLine_get_vertices(g, precision).vertices) - 1

DivisionsMatchVertices ==
  \A g \in AllGridLines : \A precision \in PrecisionSet :
     FromData(g) =>
       /\ GridLine_get_vertices(g, precision).err = "none"
       /\ g.nb_divisions = DivisionsOf(g, precision)

\* C3: for every segment built from parameters, vertices[0] = start and
\* vertices[-1] = end.
EndPointsAreBounds ==
  \A s \in AllSegments :
     SegmentFromData(s) =>
       /\ s.vertices[1] = s.start
       /\ s.vertices[Len(s.vertices)] = s.end

\* C4: get_number_cells returns (total, per_direction): per_direction lists
\* the nb_divisions of the gridlines in their order, total is the product of
\* that list; for a mesh without gridlines they are 1 and the empty list.
RECURSIVE Product(_)
Product(seq) ==
  IF seq = <<>> THEN 1 ELSE Product(SubSeq(seq, 1, Len(seq) - 1)) * seq[Len(seq)]

NumberCellsIsProduct ==
  op.name = "get_number_cells" =>
    /\ Len(ret.nb_divisions) = Len(op.before)
    /\ \A i \in 1..Len(op.before) : ret.nb_divisions[i] = op.before[i].nb_divisions
    /\ ret.total = Product(ret.nb_divisions)
    /\ op.before = <<>> => (ret.total = 1 /\ ret.nb_divisions = <<>>)

\* C4, its case: get_number_cells has returned for a mesh of several
\* gridlines, the total being more than any of the counts alone
NumberCellsOfMesh ==
  /\ op.name = "get_number_cells"
  /\ Len(op.before) >= 2
  /\ \A i \in 1..Len(op.before) : ret.total > op.before[i].nb_divisions

\* the empty case of C4 happens as well
NumberCellsOfEmptyMesh == op.name = "get_number_cells" /\ op.before = <<>>

\* C5: a uniform segment (start < end, width > 0, the length a multiple of
\* the width) has the vertices start, start + width, ..., end;
\* nb_divisions = len(vertices) - 1 = round((end - start)/width); its
\* aspect ratio is 1.0.
IsUniform(s) == SegmentFromData(s) /\ s.stretch_ratio.num = s.stretch_ratio.den

UniformIsArithmetic ==
  \A s \in AllSegments :
     IsUniform(s) =>
       /\ \A k \in 1..Len(s.vertices) : s.vertices[k] = s.start + (k - 1) * s.width
       /\ s.vertices[Len(s.vertices)] = s.end
       /\ s.nb_divisions = Len(s.vertices) - 1
       /\ s.nb_divisions = (2 * (s.end - s.start) + s.width) \div (2 * s.width)
       /\ s.aspect_ratio = One

\* C5, its case: a mesh holds a uniform segment of several divisions
UniformSegmentBuilt == \E s \in AllSegments : IsUniform(s) /\ s.nb_divisions >= 2


\* C6: when a uniform sub-domain is requested whose length is no multiple of
\* its width, the construction fails: the error is printed, the process
\* ends (SystemExit: no call is made after it), and the mapping gives no
\* gridline (the mesh keeps what it held and the gridlines of the mappings
\* before it).
UniformRequested(sd) ==
  KeyOr(sd, "stretchRatio", RatioUnit) = RatioUnit
  /\ KeyOr(sd, "aspectRatio", RatioUnit) = RatioUnit

SubDomainLength(node, j) ==
  node.subDomains[j].end
    - (IF j = 1 THEN node.start ELSE node.subDomains[j - 1].end)

Fits(node, j) ==
  UniformRequested(node.subDomains[j])
  /\ SubDomainLength(node, j) % node.subDomains[j].width = 0

Mismatches(node, j) ==
  UniformRequested(node.subDomains[j])
  /\ SubDomainLength(node, j) % node.subDomains[j].width # 0

\* the mapping k of data is the first that does not build, and what stops it
\* is a uniform sub-domain that mismatches
FirstMismatch(data, k) ==
  /\ \A i \in 1..(k - 1) : \A j \in 1..Len(data[i].subDomains) : Fits(data[i], j)
  /\ \E j \in 1..Len(data[k].subDomains) :
        /\ Mismatches(data[k], j)
        /\ \A h \in 1..(j - 1) : Fits(data[k], h)

UniformMismatchAborts ==
  \A k \in 1..(IF op.name = "create" THEN Len(op.data) ELSE 0) :
     FirstMismatch(op.data, k) =>
       /\ exc = "SystemExit"
       /\ printed = "[error] uniform discretization"
       /\ Len(gridlines[op.mesh]) = Len(op.before) + k - 1
       /\ SubSeq(gridlines[op.mesh], 1, Len(op.before)) = op.before
       /\ \A i \in 1..(k - 1) :
            gridlines[op.mesh][Len(op.before) + i].label = op.data[i].direction

\* C6, its case: create has met a uniform sub-domain that mismatches
UniformMismatchMet ==
  /\ op.name = "create"
  /\ \E k \in 1..Len(op.data) : FirstMismatch(op.data, k)
  /\ exc = "SystemExit"

\* C7: once a mesh holds gridlines, no operation changes its list of
\* gridlines.
PopulatedMeshIsFrozen ==
  [][\A m \in Meshes : gridlines[m] # <<>> => gridlines'[m] = gridlines[m]]_vars

\* C8: read of a file whose header does not announce the number of lines the
\* file holds (the sum of the counts + 1) raises an error and creates no
\* gridline.
RECURSIVE AnnouncedLines(_)
AnnouncedLines(header) ==
  IF header = <<>> THEN 0 ELSE Head(header) + 1 + AnnouncedLines(Tail(header))

Malformed(file) == AnnouncedLines(file.header) # Len(file.lines)

ReadRefusesMalformedFile ==
  (op.name = "read" /\ files[op.path] # None /\ Malformed(files[op.path]))
  => (exc # "none" /\ gridlines[op.mesh] = op.before)

\* C9: a write that fails leaves the grid file as it was.
FailedWriteLeavesFile ==
  [][(op'.name = "write" /\ exc' # "none") => files' = files]_vars


\* the value of a key of a sub-domain mapping, or what stands for it
Given(sd, key, otherwise) == IF key \in DOMAIN sd THEN sd[key] ELSE otherwise

\* the sub-domain j of a gridline mapping with contiguous starts and the
\* defaults False, 6, 1.0, 1.0
ExpectedSubDomain(node, j) ==
  [start |-> IF j = 1 THEN node.start ELSE node.subDomains[j - 1].end,
   end |-> node.subDomains[j].end,
   width |-> node.subDomains[j].width,
   reverse |-> Given(node.subDomains[j], "reverse", FALSE),
   precision |-> Given(node.subDomains[j], "precision", 6),
   aspectRatio |-> Given(node.subDomains[j], "aspectRatio", RatioUnit),
   stretchRatio |-> Given(node.subDomains[j], "stretchRatio", RatioUnit)]

\* g is the gridline of the mapping node, the call having left the mapping
\* as `left`
ContiguousWithDefaults(g, node, left) ==
  /\ Len(g.segments) = Len(node.subDomains)
  /\ g.start = node.start
  /\ g.end = node.subDomains[Len(node.subDomains)].end
  /\ g.segments[1].start = g.start
  /\ \A j \in 1..(Len(g.segments) - 1) :
        g.segments[j + 1].start = g.segments[j].end
  /\ \A j \in 1..Len(g.segments) :
        /\ g.segments[j].end = node.subDomains[j].end
        /\ g.segments[j].width = node.subDomains[j].width
        /\ left.subDomains[j] = ExpectedSubDomain(node, j)
        /\ g.segments[j]
             = Segment_create_from_yaml_data(ExpectedSubDomain(node, j)).seg

\* C13: in every gridline built from k >= 1 sub-domains the segments are
\* contiguous in input order (the first starts at the gridline's start, each
\* next one where the one before ends, the gridline ends where the last
\* sub-domain ends), and a sub-domain is built with the keys it gives and
\* with reverse False, precision 6, aspectRatio 1.0, stretchRatio 1.0 for
\* those it does not give.
SegmentsContiguous ==
  (op.name = "create" /\ exc = "none") =>
     \A i \in 1..Len(op.data) :
        ContiguousWithDefaults(gridlines[op.mesh][Len(op.before) + i],
                               op.data[i], op.completed[i])

\* C13, its case: create has built a gridline of two sub-domains, one of
\* them giving keys of its own
TwoSubDomainsBuilt ==
  /\ op.name = "create"
  /\ exc = "none"
  /\ \E i \in 1..Len(op.data) :
        /\ Len(op.data[i].subDomains) = 2
        /\ "stretchRatio" \in DOMAIN op.data[i].subDomains[1]
        /\ "stretchRatio" \notin DOMAIN op.data[i].subDomains[2]

-----------------------------------------------------------------------------
(* Properties of the ratio searches (specification SearchSpec).            *)

\* the ratio R/RatioUnit is one whose logarithm is undefined or zero, or one
\* that makes the argument 1 - length/width*(1 - ratio) of the logarithm <= 0
BadRatio(R, data) ==
  \/ R <= 0
  \/ R = RatioUnit
  \/ R < RatioUnit /\ data.width * RatioUnit <= SegLength(data) * (RatioUnit - R)

\* a pass of one of the two loops
SearchPass == search.phase \in {"coarse", "fine"} /\ search'.phase = search.phase

\* get_vertices takes its stretched branch
StretchedBuild ==
  search.phase = "resolved" /\ search'.phase = "built"
  /\ ~NearOne(search.st.ratio)

\* the n that get_vertices computes is <= 0
NoDivision(R, data) ==
  NbDivisions(SegLength(data), data.width, R, TRUE).err = "none"
  /\ NbDivisions(SegLength(data), data.width, R, TRUE).n <= 0

\* C10: a pass of compute_stretch_ratio or of compute_optimal_stretch_ratio
\* whose ratio is <= 0 or 1, whose log argument is <= 0 or whose n is <= 0
\* ends the search with an error, and so does the stretched branch of
\* get_vertices.
DegenerateSearchEnds ==
  [][/\ (SearchPass /\ BadRatio(search.st.ratio, search.data))
          => search'.st.err # "none"
     /\ (SearchPass /\ "n" \in DOMAIN search'.st /\ search'.st.n <= 0)
          => search'.st.err # "none"
     /\ (StretchedBuild /\ (BadRatio(search.st.ratio, search.data)
                             \/ NoDivision(search.st.ratio, search.data)))
          => search'.segment.err # "none"]_vars


\* the segment whose ratio is resolved, as get_vertices receives it
ResolvedSegment ==
  [start |-> search.data.start, end |-> search.data.end,
   width |-> search.data.width, stretch_ratio |-> search.st.ratio]

\* a stretched segment has been built
StretchedBuilt ==
  /\ search.phase = "built"
  /\ ~NearOne(search.st.ratio)
  /\ search.segment.err = "none"

Ascending(v) == \A i \in 1..(Len(v) - 1) : v[i] < v[i + 1]

\* v is the mirror of u: v[i] = start + end - u[n - i], the indices from 0
MirrorOf(v, u, start, end) ==
  /\ Len(v) = Len(u)
  /\ \A i \in 1..Len(u) : v[i] = start + end - u[Len(u) + 1 - i]

\* C11: for the same start, end, width and resolved ratio r # 1, the
\* vertices built with reverse=True are ascending and are the mirror of
\* those built without (v_rev[i] = start + end - v_fwd[n - i]); the reversed
\* segment stores 1/r as its stretch_ratio, the other one r.
ReversalIsMirror ==
  StretchedBuilt =>
    /\ search.data.reverse =>
         /\ Ascending(search.segment.seg.vertices)
         /\ MirrorOf(search.segment.seg.vertices,
                     Segment_get_vertices(ResolvedSegment, FALSE).vertices,
                     search.data.start, search.data.end)
         /\ search.segment.seg.stretch_ratio.num * search.st.ratio
              = search.segment.seg.stretch_ratio.den * RatioUnit
    /\ ~search.data.reverse =>
         /\ MirrorOf(Segment_get_vertices(ResolvedSegment, TRUE).vertices,
                     search.segment.seg.vertices,
                     search.data.start, search.data.end)
         /\ search.segment.seg.stretch_ratio.num * RatioUnit
              = search.segment.seg.stretch_ratio.den * search.st.ratio

\* C11, its case: a segment of several divisions is built with reverse=True
ReversedSegmentBuilt ==
  StretchedBuilt /\ search.data.reverse /\ search.segment.seg.nb_divisions >= 3


\* the widths of the divisions of the stretched segment built, in the order
\* get_vertices generates them: from the start, or from the end when reversed
BuiltWidths ==
  LET v == search.segment.seg.vertices
      n == Len(v) - 1
  IN  IF search.data.reverse
      THEN [k \in 1..n |-> v[n + 2 - k] - v[n + 1 - k]]
      ELSE [k \in 1..n |-> v[k + 1] - v[k]]

\* b is R/RatioUnit times a, cut to the tick
GeometricStep(a, b, R) == b * RatioUnit <= a * R /\ a * R < (b + 1) * RatioUnit

\* last is first * (R/RatioUnit)^(n-1), up to the ticks that n - 1 cuts lose
GeometricLast(first, last, R, n) ==
  LET exact == MagMul(MagOfInt(first), MagPow(MagOfInt(R), n - 1))
      got == MagMul(MagOfInt(last), MagPow(MagOfInt(RatioUnit), n - 1))
      larger == IF R > RatioUnit THEN R ELSE RatioUnit
  IN  /\ MagLeq(got, exact)
      /\ n = 1 \/ MagLess(MagSub(exact, got),
                          MagMulInt(MagPow(MagOfInt(larger), n - 1), n - 1))

\* n = round(log(1 - length/width*(1 - r))/log(r)), halves away from zero:
\* the square of the argument lies between r^(2n-1) and r^(2n+1)
IsRoundedLog(n, data, R) ==
  LET arg2 == MagPow(MagOfInt(data.width * RatioUnit
                               + SegLength(data) * (R - RatioUnit)), 2)
      one2 == MagPow(MagOfInt(data.width * RatioUnit), 2)
      lowSide == MagMul(MagPow(MagOfInt(R), 2 * n - 1), one2)
      low == MagMul(arg2, MagPow(MagOfInt(RatioUnit), 2 * n - 1))
      highSide == MagMul(MagPow(MagOfInt(R), 2 * n + 1), one2)
      high == MagMul(arg2, MagPow(MagOfInt(RatioUnit), 2 * n + 1))
  IN  IF R > RatioUnit
      THEN MagLeq(lowSide, low) /\ MagLess(high, highSide)
      ELSE MagLess(highSide, high) /\ MagLeq(low, lowSide)

\* C12: a stretched segment has n = round(log(1 - length/width*(1-r))/log(r))
\* divisions; its vertices are strictly increasing; the first division
\* generated has the width `width`, each following one is r times the one
\* before (to the tick), and aspect_ratio = widths[-1]/widths[0] = r^(n-1).
StretchedIsGeometric ==
  StretchedBuilt =>
    /\ IsRoundedLog(Len(BuiltWidths), search.data, search.st.ratio)
    /\ Ascending(search.segment.seg.vertices)
    /\ BuiltWidths[1] = search.data.width
    /\ \A k \in 1..(Len(BuiltWidths) - 1) :
          GeometricStep(BuiltWidths[k], BuiltWidths[k + 1], search.st.ratio)
    /\ search.segment.seg.aspect_ratio
         = [num |-> BuiltWidths[Len(BuiltWidths)], den |-> BuiltWidths[1]]
    /\ GeometricLast(BuiltWidths[1], BuiltWidths[Len(BuiltWidths)],
                     search.st.ratio, Len(BuiltWidths))

\* C12, its case: a stretched segment of several divisions, the ratio found
\* by the searches
StretchedSegmentBuilt ==
  /\ StretchedBuilt
  /\ search.segment.seg.nb_divisions >= 3
  /\ search.st.ratio % (RatioUnit \div 10) # 0



\* a step inside the loop of compute_stretch_ratio that raised nothing
CoarseStepTaken ==
  /\ search.phase = "coarse"
  /\ search'.phase = "coarse"
  /\ search'.st.err = "none"

\* the candidate aspect ratio of the pass just made is below the target
CandidateBelow ==
  RatLess(RatioPow(search.st.ratio, search'.st.n - 1),
          RatOfInts(search.data.aspectRatio, RatioUnit))

\* C14: compute_stretch_ratio starts at ratio 2.0 and level 1; a pass at
\* level k <= precision subtracts 0.1^k and stays at level k while the
\* candidate ratio^(n-1) is not below the target, and adds 0.1^k and moves
\* to level k+1 the first time it is below; the search returns only after
\* the increase of level `precision`, that is at level precision + 1.
CoarseWorksEveryLevel ==
  [][/\ (search = Idle /\ search'.phase = "coarse")
          => /\ search'.st.ratio = 2 * RatioUnit
             /\ search'.st.current_precision = 1
     /\ CoarseStepTaken
          => /\ search.st.current_precision <= search.data.precision
             /\ IF CandidateBelow
                THEN /\ search'.st.ratio
                          = search.st.ratio + Tenth(search.st.current_precision)
                     /\ search'.st.current_precision
                          = search.st.current_precision + 1
                ELSE /\ search'.st.ratio
                          = search.st.ratio - Tenth(search.st.current_precision)
                     /\ search'.st.current_precision
                          = search.st.current_precision
     /\ (search.phase = "coarse" /\ search'.phase = "fine")
          => search.st.current_precision = search.data.precision + 1]_vars

\* what the loop does: the same passes, over the levels below `precision`
\* only, returning at level `precision`
CoarseStopsOneLevelShort ==
  [][/\ CoarseStepTaken
          => /\ search.st.current_precision < search.data.precision
             /\ IF CandidateBelow
                THEN /\ search'.st.ratio
                          = search.st.ratio + Tenth(search.st.current_precision)
                     /\ search'.st.current_precision
                          = search.st.current_precision + 1
                ELSE /\ search'.st.ratio
                          = search.st.ratio - Tenth(search.st.current_precision)
                     /\ search'.st.current_precision
                          = search.st.current_precision
     /\ (search.phase = "coarse" /\ search'.phase = "fine")
          => search.st.current_precision = search.data.precision]_vars

\* the number of decimal digits of a ratio, at least one ("2.0")
DecimalsOf(R) ==
  CHOOSE d \in 1..PDigits :
    /\ R % (RatioUnit \div 10^d) = 0
    /\ \A e \in 1..(d - 1) : R % (RatioUnit \div 10^e) # 0

\* n = floor(log(1 - (1 - r)*length/width)/log(r)), nothing rounded: the
\* argument lies between r^n and r^(n+1)
IsFloorLog(n, data, R) ==
  LET arg == MagOfInt(data.width * RatioUnit
                       + SegLength(data) * (R - RatioUnit))
      one == MagOfInt(data.width * RatioUnit)
      lowSide == MagMul(MagPow(MagOfInt(R), n), one)
      low == MagMul(arg, MagPow(MagOfInt(RatioUnit), n))
      highSide == MagMul(MagPow(MagOfInt(R), n + 1), one)
      high == MagMul(arg, MagPow(MagOfInt(RatioUnit), n + 1))
  IN  /\ n >= 0
      /\ IF R > RatioUnit
         THEN MagLeq(lowSide, low) /\ MagLess(high, highSide)
         ELSE MagLess(highSide, high) /\ MagLeq(low, lowSide)

\* the total length of n divisions is nearer to `length` than that of n + 1
NearerWith(n, data, R) ==
  RatLess(Deviation(SegLength(data), geometric_sum(data.width, R, n)),
          Deviation(SegLength(data), geometric_sum(data.width, R, n + 1)))

\* the refinement starts at the number of decimals of the ratio it is given
FineStartsAtDecimals ==
  (search.phase # "fine" /\ search'.phase = "fine")
     => search'.st.precision_ratio = DecimalsOf(search'.st.ratio)

\* a step inside the loop of compute_optimal_stretch_ratio
FineStepTaken == search.phase = "fine" /\ search'.phase = "fine"

\* iteration j = precision_ratio + 1 <= precision has changed the ratio by
\* +0.1^j or -0.1^j
FineIteration ==
  /\ search.st.precision_ratio < search.data.precision
  /\ search'.st.err = "none"
  /\ search'.st.precision_ratio = search.st.precision_ratio + 1
  /\ IsFloorLog(search'.st.n, search.data, search.st.ratio)
  /\ search'.st.ratio
       = IF NearerWith(search'.st.n, search.data, search.st.ratio)
         THEN search.st.ratio + Tenth(search'.st.precision_ratio)
         ELSE search.st.ratio - Tenth(search'.st.precision_ratio)

\* the refinement returns once the iterations d+1..precision are made, with
\* the ratio the last one left (the one given when d >= precision)
FineReturnsAfterLast ==
  (search.phase = "fine" /\ search'.phase = "resolved")
     => /\ search.st.precision_ratio >= search.data.precision
        /\ search.st.precision_ratio > search.data.precision
             => "n" \notin DOMAIN search.st
        /\ search'.st.ratio = search.st.ratio

\* the refinement has stopped: nothing but its return follows
FineStopped ==
  (search.phase = "fine"
   /\ (search.st.err # "none"
       \/ search.st.precision_ratio >= search.data.precision))
     => search'.phase # "fine"

OffOne(R) == Abs(R - RatioUnit) * 1000000 > RatioUnit

\* C16: get_stretch_ratio resolves the ratio by strict priority.  With a
\* stretchRatio off 1 (by more than 1e-6) the coarse search never runs and
\* the ratio returned is the fine refinement of stretchRatio, whatever
\* aspectRatio is; otherwise, with an aspectRatio off 1, it is the fine
\* refinement of the coarse-search result for aspectRatio; otherwise it is
\* exactly 1.0 and no search has run.
StretchRatioHasPriority ==
  search # Idle =>
    /\ search.phase = "coarse"
         => ~OffOne(search.data.stretchRatio) /\ OffOne(search.data.aspectRatio)
    /\ search.phase = "fine"
         => OffOne(search.data.stretchRatio) \/ OffOne(search.data.aspectRatio)
    /\ search.phase \in {"resolved", "built"}
         => IF OffOne(search.data.stretchRatio)
            THEN search.st
                   = compute_optimal_stretch_ratio(search.data,
                        search.data.width, search.data.stretchRatio,
                        search.data.precision)
            ELSE IF OffOne(search.data.aspectRatio)
            THEN search.st
                   = compute_optimal_stretch_ratio(search.data,
                        search.data.width,
                        compute_stretch_ratio(search.data, search.data.width,
                           search.data.aspectRatio,
                           search.data.precision).ratio,
                        search.data.precision)
            ELSE /\ search.st.ratio = RatioUnit
                 /\ DOMAIN search.st = {"err", "ratio"}

\* C16, its case: both ratios are given off 1 and the ratio is resolved, the
\* refinement having made an iteration
BothRatiosResolved ==
  /\ search.phase = "resolved"
  /\ OffOne(search.data.stretchRatio)
  /\ OffOne(search.data.aspectRatio)
  /\ "n" \in DOMAIN search.st

=============================================================================
